---------------------------- MODULE Spec2Model ----------------------------
(***************************************************************************)
(* Video2Gif: the conversion pipeline (src/src/convert.ts), the process    *)
(* runner (ffmpeg.ts, src/unnamed/part_000 lines 128-273) and the job      *)
(* registry with its event broadcaster (server.ts, src/unnamed/part_001).  *)
(*                                                                         *)
(* One step of the model is one turn of the Node event loop: a handler     *)
(* together with the promise continuations it resumes, up to the next      *)
(* await on a child process.  A value of type `T | undefined` is the set   *)
(* {} (undefined) or {v}.  A string that the code parses is a sequence of  *)
(* one-character strings.                                                  *)
(***************************************************************************)
EXTENDS Integers, Sequences, FiniteSets, TLC

\* ------------------------------------------------------------- bounds
MaxJobs == 2
MaxSubs == 2
MaxBlocks == 2
MaxTicks == 3
MaxReqs == 2
MaxLines == 2

\* ------------------------------------------------- program constants
jobTtlMs == 600000
CleanupSlackMs == 1000
UsThreshold == 60000000
\* the clock of the model moves in steps of the cleanup timer's delay
TickMs == jobTtlMs + CleanupSlackMs

\* ---------------------------------------------------- optional values
Undef == {}
Some(v) == {v}
Val(o) == CHOOSE v \in o : TRUE
Max(a, b) == IF a >= b THEN a ELSE b
Min(a, b) == IF a <= b THEN a ELSE b
Last(s) == s[Len(s)]
\* rec with the fields of ch overwritten
With(rec, ch) == ch @@ rec

\* ------------------------------------------------------ text helpers
Digit == {"0", "1", "2", "3", "4", "5", "6", "7", "8", "9"}
DigitVal(c) ==
    CASE c = "0" -> 0 [] c = "1" -> 1 [] c = "2" -> 2 [] c = "3" -> 3
      [] c = "4" -> 4 [] c = "5" -> 5 [] c = "6" -> 6 [] c = "7" -> 7
      [] c = "8" -> 8 [] c = "9" -> 9

\* /^\d+$/
AllDigits(s) == Len(s) > 0 /\ \A i \in 1..Len(s) : s[i] \in Digit

RECURSIVE NumVal(_)
NumVal(s) == IF Len(s) = 0 THEN 0
             ELSE 10 * NumVal(SubSeq(s, 1, Len(s) - 1)) + DigitVal(s[Len(s)])

\* String.prototype.trim on blanks
RECURSIVE TrimLeft(_)
TrimLeft(s) == IF Len(s) > 0 /\ s[1] = " " THEN TrimLeft(Tail(s)) ELSE s
RECURSIVE TrimRight(_)
TrimRight(s) == IF Len(s) > 0 /\ s[Len(s)] = " "
                THEN TrimRight(SubSeq(s, 1, Len(s) - 1)) ELSE s
Trim(s) == TrimRight(TrimLeft(s))

Positions(s, c) == {i \in 1..Len(s) : s[i] = c}

\* ------------------------------------------- double-precision numbers
\* A natural number of any size: its digits in base LimbBase, the least
\* significant first, no zero at the top.
LimbBase == 1000
Front(s) == SubSeq(s, 1, Len(s) - 1)
\* the value of the one element of S; Only({e(x) : x \in {v}}) computes v once
\* for all its uses in e
Only(S) == CHOOSE x \in S : TRUE

RECURSIVE BigOf(_)
BigOf(n) == IF n = 0 THEN <<>> ELSE <<n % LimbBase>> \o BigOf(n \div LimbBase)
RECURSIVE IntOf(_)
IntOf(a) == IF a = <<>> THEN 0 ELSE Head(a) + LimbBase * IntOf(Tail(a))

\* a * c + carry, for a small c >= 1
RECURSIVE BigScale(_, _, _)
BigScale(a, c, carry) ==
    IF a = <<>> THEN BigOf(carry)
    ELSE LET v == Head(a) * c + carry
         IN  <<v % LimbBase>> \o BigScale(Tail(a), c, v \div LimbBase)

\* a + b + carry
RECURSIVE BigAdd(_, _, _)
BigAdd(a, b, carry) ==
    IF a = <<>> /\ b = <<>> THEN BigOf(carry)
    ELSE LET x == IF a = <<>> THEN 0 ELSE Head(a)
             y == IF b = <<>> THEN 0 ELSE Head(b)
             v == x + y + carry
         IN  <<v % LimbBase>>
             \o BigAdd(IF a = <<>> THEN a ELSE Tail(a),
                       IF b = <<>> THEN b ELSE Tail(b), v \div LimbBase)

\* <<quotient, remainder>> of a by a small c >= 1
RECURSIVE BigDivMod(_, _)
BigDivMod(a, c) ==
    IF a = <<>> THEN <<<<>>, 0>>
    ELSE Only({Only({<<IF hi[1] = <<>> /\ v \div c = 0 THEN <<>>
                         ELSE <<v \div c>> \o hi[1], v % c>> :
                          v \in {hi[2] * LimbBase + Head(a)}}) :
                   hi \in {BigDivMod(Tail(a), c)}})

RECURSIVE BigLess(_, _)
BigLess(a, b) ==
    IF Len(a) # Len(b) THEN Len(a) < Len(b)
    ELSE IF a = <<>> THEN FALSE
    ELSE IF Last(a) # Last(b) THEN Last(a) < Last(b)
    ELSE BigLess(Front(a), Front(b))

\* a * 2^k and floor(a / 2^k), ten bits at a time while that many are left
RECURSIVE BigShiftLeft(_, _)
BigShiftLeft(a, k) ==
    IF k = 0 THEN a
    ELSE IF k >= 10 THEN Only({BigShiftLeft(b, k - 10) : b \in {BigScale(a, 1024, 0)}})
    ELSE Only({BigShiftLeft(b, k - 1) : b \in {BigScale(a, 2, 0)}})
RECURSIVE BigShiftRight(_, _)
BigShiftRight(a, k) ==
    IF k = 0 THEN a
    ELSE IF k >= 10 THEN Only({BigShiftRight(d[1], k - 10) : d \in {BigDivMod(a, 1024)}})
    ELSE Only({BigShiftRight(d[1], k - 1) : d \in {BigDivMod(a, 2)}})

\* the number that a text of digits stands for
RECURSIVE BigOfText(_)
BigOfText(s) ==
    IF Len(s) = 0 THEN <<>>
    ELSE Only({BigScale(a, 10, DigitVal(Last(s))) : a \in {BigOfText(Front(s))}})

RECURSIVE Pow10(_)
Pow10(k) == IF k = 0 THEN 1 ELSE 10 * Pow10(k - 1)

\* A double is m / 2^s with m below 2^53 (numbers of the model are neither
\* subnormal nor beyond the exponent range).

\* The double nearest to p / 2^s, ties to even; half is the bit dropped last
\* and sticky tells whether a bit dropped before it was 1.
RECURSIVE RoundDouble(_, _, _, _)
RoundDouble(p, s, half, sticky) ==
    IF BigLess(p, BigShiftLeft(<<1>>, 53))
    THEN LET odd == p # <<>> /\ Head(p) % 2 = 1
         IN  [m |-> IF half /\ (sticky \/ odd) THEN BigAdd(p, <<>>, 1) ELSE p,
              s |-> s]
    ELSE IF BigLess(p, BigShiftLeft(<<1>>, 63))
    THEN Only({RoundDouble(d[1], s - 1, d[2] = 1, sticky \/ half) :
                  d \in {BigDivMod(p, 2)}})
    \* ten bits that all lie below the bit dropped last
    ELSE Only({RoundDouble(d[1], s - 10, FALSE, sticky \/ half \/ d[2] # 0) :
                  d \in {BigDivMod(p, 1024)}})

\* Number("<int>.<frac>"): the double nearest to the decimal (texts of at most
\* nine digits, at most six of them after the point)
NumberOf(int, frac) ==
    Only({Only({RoundDouble(d[1], 80, FALSE, d[2] # 0) :
                   d \in {BigDivMod(n, Pow10(Len(frac)))}}) :
             n \in {BigShiftLeft(BigOfText(int \o frac), 80)}})

\* k + x and x * k for a whole number k, and Math.floor(x)
DoublePlus(k, x) ==
    Only({Only({RoundDouble(p, y.s, FALSE, FALSE) :
                   p \in {Only({BigAdd(a, y.m, 0) :
                                  a \in {BigShiftLeft(BigOf(k), y.s)}})}}) : y \in {x}})
DoubleTimes(x, k) ==
    Only({Only({RoundDouble(p, y.s, FALSE, FALSE) : p \in {BigScale(y.m, k, 0)}}) :
             y \in {x}})
\* x / k for a whole number k >= 1
DoubleOver(x, k) ==
    Only({Only({RoundDouble(d[1], y.s + 70, FALSE, d[2] # 0) :
                   d \in {BigDivMod(BigShiftLeft(y.m, 70), k)}}) : y \in {x}})
\* Math.floor(x) as a number of any size, and as an integer of the model
DoubleWhole(x) ==
    Only({IF y.s >= 0 THEN BigShiftRight(y.m, y.s) ELSE BigShiftLeft(y.m, 0 - y.s) :
             y \in {x}})
DoubleFloor(x) == Only({IntOf(a) : a \in {DoubleWhole(x)}})

\* /^\d+(\.\d+)?$/ : <<int, frac>> when s matches, <<>> when it does not
MatchDecimal(s) ==
    LET dots == Positions(s, ".")
    IN  IF dots = {} THEN (IF AllDigits(s) THEN <<s, <<>>>> ELSE <<>>)
        ELSE IF Cardinality(dots) = 1
             THEN LET p == Val(dots)
                      int == SubSeq(s, 1, p - 1)
                      frac == SubSeq(s, p + 1, Len(s))
                  IN  IF AllDigits(int) /\ AllDigits(frac) THEN <<int, frac>> ELSE <<>>
             ELSE <<>>

\* [0-5]?\d
MatchSexagesimal(s) ==
    /\ Len(s) \in {1, 2}
    /\ AllDigits(s)
    /\ Len(s) = 2 => s[1] \in {"0", "1", "2", "3", "4", "5"}

parseTimeToMs(value) ==
    IF value = Undef \/ Len(Val(value)) = 0 THEN Undef
    ELSE LET trimmed == Trim(Val(value))
             dec == MatchDecimal(trimmed)
             colons == Positions(trimmed, ":")
         IN  IF Len(trimmed) = 0 THEN Undef
             ELSE IF dec # <<>>
                  THEN Some(DoubleFloor(DoubleTimes(NumberOf(dec[1], dec[2]), 1000)))
             ELSE IF Cardinality(colons) # 2 THEN Undef
             ELSE LET c1 == CHOOSE i \in colons : \A k \in colons : i <= k
                      c2 == CHOOSE i \in colons : \A k \in colons : i >= k
                      h == SubSeq(trimmed, 1, c1 - 1)
                      m == SubSeq(trimmed, c1 + 1, c2 - 1)
                      sec == MatchDecimal(SubSeq(trimmed, c2 + 1, Len(trimmed)))
                  IN  IF AllDigits(h) /\ MatchSexagesimal(m) /\ sec # <<>>
                         /\ MatchSexagesimal(sec[1])
                      THEN LET hours == NumVal(h)
                               minutes == NumVal(m)
                               seconds == NumberOf(sec[1], sec[2])
                           IN  Some(DoubleFloor(DoubleTimes(
                                   DoublePlus((hours * 60 + minutes) * 60, seconds), 1000)))
                      ELSE Undef

\* faulty variant: the explicit duration is tested for truth, and 0 is not true
computeEffectiveDurationMs_Truthy(fullDurationMs, startMs, explicitDurationMs) ==
    IF explicitDurationMs # Undef /\ explicitDurationMs # Some(0) THEN explicitDurationMs
    ELSE IF fullDurationMs = Undef THEN Undef
    ELSE IF startMs = Undef THEN fullDurationMs
    ELSE Some(Max(0, Val(fullDurationMs) - Val(startMs)))

computeEffectiveDurationMs(fullDurationMs, startMs, explicitDurationMs) ==
    IF explicitDurationMs # Undef THEN explicitDurationMs
    ELSE IF fullDurationMs = Undef THEN Undef
    ELSE IF startMs = Undef THEN fullDurationMs
    ELSE Some(Max(0, Val(fullDurationMs) - Val(startMs)))

\* ------------------------------------------------- telemetry blocks
\* A field of a block: missing, text that is not all digits, or the digits of n.
Missing == [t |-> "missing"]
Text == [t |-> "text"]
Digits(n) == [t |-> "digits", n |-> n]
IsDigits(f) == f.t = "digits"

parseOutTimeMs(raw) ==
    IF IsDigits(raw.out_time_us) THEN Some(raw.out_time_us.n \div 1000)
    ELSE IF IsDigits(raw.out_time_ms)
         THEN IF raw.out_time_ms.n > UsThreshold
              THEN Some(raw.out_time_ms.n \div 1000)
              ELSE Some(raw.out_time_ms.n)
         ELSE Undef

\* parseOutTimeMs on the texts of the two fields (a field that is missing is
\* Undef), in double precision; the result is a number of any size. Texts of
\* the model are short enough for Number.isFinite to hold.
parseOutTimeMsText(raw) ==
    IF raw.out_time_us # Undef /\ AllDigits(Val(raw.out_time_us))
    THEN Some(DoubleWhole(DoubleOver(NumberOf(Val(raw.out_time_us), <<>>), 1000)))
    ELSE IF raw.out_time_ms # Undef /\ AllDigits(Val(raw.out_time_ms))
    THEN Only({IF BigLess(BigOf(UsThreshold), DoubleWhole(num))
               THEN Some(DoubleWhole(DoubleOver(num, 1000)))
               ELSE Some(DoubleWhole(num)) :
                  num \in {NumberOf(Val(raw.out_time_ms), <<>>)}})
    ELSE Undef

\* faulty variant: Math.floor in the place of Math.round
EncodePercent_Floor(outTimeMs, durationMs) ==
    IF durationMs # Undef /\ Val(durationMs) # 0 /\ outTimeMs # Undef
       /\ Val(durationMs) > 0
    THEN LET d == Val(durationMs)
             t == Max(0, Min(d, Val(outTimeMs)))
         IN  (10 * d + 90 * t) \div d
    ELSE 10

\* Math.round(10 + max(0, min(1, outTimeMs / durationMs)) * 90), or 10
EncodePercent(outTimeMs, durationMs) ==
    IF durationMs # Undef /\ Val(durationMs) # 0 /\ outTimeMs # Undef
       /\ Val(durationMs) > 0
    THEN LET d == Val(durationMs)
             t == Max(0, Min(d, Val(outTimeMs)))
         IN  (2 * (10 * d + 90 * t) + d) \div (2 * d)
    ELSE 10

EncodeEvent(p, durationMs) ==
    [phase |-> "encode", percent |-> EncodePercent(p.outTimeMs, durationMs),
     outTimeMs |-> p.outTimeMs, durationMs |-> durationMs]


\* ------------------------------------------------------------- state
RunIds == 1..MaxJobs
SubIds == 1..MaxSubs

VARIABLES
    run,      \* run[r]: one call of convertVideoToGifWithProgress
    fs,       \* the files that exist: path -> content
    now,      \* Date.now()
    jobs,     \* the keys of the Map `jobs`
    job,      \* job[j]: the Job object (it outlives its Map entry)
    timers,   \* timers[j]: the due time of the pending cleanup timer, or {}
    sub,      \* sub[s]: one GET /jobs/:id/events request and its response
    resp,     \* the last HTTP response that has been produced
    nreq,     \* the number of HTTP responses produced
    proc,     \* one call of runFfmpegWithProgress, its child's output by characters
    input,    \* the arguments of a function that is evaluated on its own
    result    \* its value, once it has been evaluated

vars == <<run, fs, now, jobs, job, timers, sub, resp, nreq, proc, input, result>>
\* what the pipeline and the server leave alone
aside == <<proc, input, result>>

\* ------------------------------------------------------- file system
Exists(files, p) == p \in DOMAIN files
WriteFile(files, p, c) == (p :> c) @@ files
\* fs.unlinkSync inside try/catch: a missing file is ignored
safeUnlink(files, p) == [q \in (DOMAIN files) \ {p} |-> files[q]]

ServerPid == "server"
CliPid == "cli"
PalettePath(pid, ms) == <<"videotogif-palette", pid, ms>>
UploadPath(j) == <<"upload", ServerPid, j>>
JobOutputPath(j) == <<"videotogif", ServerPid, j>>
CliInputPath == <<"input", CliPid, 0>>
CliOutputPath == <<"output", CliPid, 0>>

\* ----------------------------------------------- engine invocations
Flag(s) == [k |-> "flag", v |-> s]
TimeArg(s) == [k |-> "time", v |-> s]
PathArg(p) == [k |-> "path", v |-> p]
FilterArg(f, options) == [k |-> "filter", v |-> <<f, options.fps, options.width>>]
LoopArg(n) == [k |-> "loop", v |-> n]

\* a string is truthy when it is defined and not empty
Truthy(o) == o # Undef /\ Len(Val(o)) > 0

commonSeekArgs(options) ==
    (IF Truthy(options.start) THEN <<Flag("-ss"), TimeArg(Val(options.start))>> ELSE <<>>)
    \o (IF Truthy(options.duration) THEN <<Flag("-t"), TimeArg(Val(options.duration))>> ELSE <<>>)

\* faulty variant: the encode invocation always forces the overwrite
overwriteArgs_AlwaysYes(options) == <<Flag("-y")>>

overwriteArgs(options) == IF options.overwrite THEN <<Flag("-y")>> ELSE <<Flag("-n")>>

VersionArgs == <<Flag("-version")>>

PaletteArgs(options, palettePath) ==
    <<Flag("-y"), Flag("-v"), Flag("error")>> \o commonSeekArgs(options)
    \o <<Flag("-i"), PathArg(options.input), Flag("-an"), Flag("-vf"),
         FilterArg("palettegen", options), PathArg(palettePath)>>

ProbeArgs(options) ==
    <<Flag("-v"), Flag("error"), Flag("-show_entries"), Flag("format=duration"),
      Flag("-of"), Flag("default=noprint_wrappers=1:nokey=1"), PathArg(options.input)>>

\* faulty variant: the encode invocation forgets the duration of the trim
EncodeArgs_StartOnly(options, palettePath) ==
    overwriteArgs(options) \o <<Flag("-v"), Flag("error")>>
    \o (IF Truthy(options.start) THEN <<Flag("-ss"), TimeArg(Val(options.start))>> ELSE <<>>)
    \o <<Flag("-i"), PathArg(options.input), Flag("-i"), PathArg(palettePath),
         Flag("-an"), Flag("-lavfi"), FilterArg("paletteuse", options),
         Flag("-loop"), LoopArg(options.loop), PathArg(options.output)>>
    \o <<Flag("-progress"), Flag("pipe:1"), Flag("-nostats")>>

EncodeArgs(options, palettePath) ==
    overwriteArgs(options) \o <<Flag("-v"), Flag("error")>> \o commonSeekArgs(options)
    \o <<Flag("-i"), PathArg(options.input), Flag("-i"), PathArg(palettePath),
         Flag("-an"), Flag("-lavfi"), FilterArg("paletteuse", options),
         Flag("-loop"), LoopArg(options.loop), PathArg(options.output)>>
    \o <<Flag("-progress"), Flag("pipe:1"), Flag("-nostats")>>

Spawn(cmd, args) == [cmd |-> cmd, args |-> args]

\* A child process ends with an 'error' event (it could not be started) or a
\* 'close' event whose code is a number, or null ({}) after a signal.
SpawnError == [ev |-> "error", code |-> Undef]
Close(code) == [ev |-> "close", code |-> code]
Outcomes == {SpawnError, Close(Some(0)), Close(Some(1)), Close(Undef)}
\* code ?? 0
ExitCode(o) == IF o.code = Undef THEN 0 ELSE Val(o.code)

\* What the engine does to its output file: nothing when it never started, the
\* file when it exits with code 0, either when it fails or is killed.
EngineWrites(o, wrote) ==
    /\ o.ev = "error" => ~wrote
    /\ o = Close(Some(0)) => wrote

\* ffmpeg writes over a file that exists only when it is given -y
IsFlag(a, s) == a.k = "flag" /\ a.v = s
EngineMayWrite(args, files, p) ==
    Exists(files, p) => \E i \in DOMAIN args : IsFlag(args[i], "-y")

\* ------------------------------------------------------ error messages
MsgEngineUnavailable == "ffmpeg nao encontrado/indisponivel"
MsgInputNotFound == "Arquivo de entrada nao encontrado"
MsgOutputExists == "Arquivo de saida ja existe"
MsgEngineFailed == "Falha ao executar ffmpeg."
MsgSpawnFailed == "spawn ffmpeg ENOENT"
MsgUnlinkFailed == "EPERM: operation not permitted, unlink"
MsgJobFailedDefault == "Falha na conversao."
MsgNotReady == "Conversao ainda em andamento."
MsgJobNotFound == "Job nao encontrado."

\* ------------------------------------------------------ initial state
\* events are the calls of onProgress and calls the processes spawned, in order;
\* exits records how each of these processes ended (the code keeps no such list)
NoRun == [kind |-> "none", pc |-> "idle", pid |-> ServerPid, options |-> <<>>,
          palettePath |-> Undef, durationMs |-> Undef, events |-> <<>>,
          calls |-> <<>>, exits |-> <<>>, error |-> Undef, blocks |-> 0]

\* nothing is being evaluated on its own
NoProc == [state |-> "none"]

\* doneAt records when the job was settled; the code keeps no such field
NoJob == [status |-> "none", createdAt |-> 0, progress |-> 0, phase |-> "palette",
          outputPath |-> Undef, error |-> Undef, emitter |-> {}, doneAt |-> Undef]

\* subAt records how many progress events preceded the subscription
NoSub == [state |-> "free", job |-> 0, received |-> <<>>, ended |-> FALSE,
          subAt |-> 0]

NoResp == [op |-> "none", id |-> 0, code |-> 0, body |-> ""]

Init ==
    /\ run = [r \in RunIds |-> NoRun]
    /\ fs = <<>>
    /\ now = 0
    /\ jobs = {}
    /\ job = [j \in RunIds |-> NoJob]
    /\ timers = [j \in RunIds |-> Undef]
    /\ sub = [s \in SubIds |-> NoSub]
    /\ resp = NoResp
    /\ nreq = 0
    /\ proc = NoProc
    /\ input = <<>>
    /\ result = Undef

\* ------------------------------------------------ event broadcasting
Sse(event, data) == [event |-> event, data |-> data]

\* send(): res.write on a response that res.end() has closed delivers nothing;
\* onDone and onJobError end the response after their event.
Send(sb, m) ==
    IF sb.ended THEN sb
    ELSE [sb EXCEPT !.received = Append(@, m),
                    !.ended = m.event \in {"done", "joberror"}]

RECURSIVE SendAll(_, _)
SendAll(sb, ms) == IF ms = <<>> THEN sb ELSE SendAll(Send(sb, Head(ms)), Tail(ms))

\* job.emitter.emit for each of ms, to the listeners registered on the emitter
emitJob(subs, emitter, ms) ==
    [s \in SubIds |-> IF s \in emitter THEN SendAll(subs[s], ms) ELSE subs[s]]

\* faulty variant: the callback stores the percent and not the phase
JobProgress_PercentOnly(jb, p) == [jb EXCEPT !.progress = p.percent]

\* faulty variant: the callback stores the phase as the status
JobProgress_PhaseAsStatus(jb, p) ==
    [jb EXCEPT !.status = p.phase, !.phase = p.phase, !.progress = p.percent]

\* the progress callback of POST /convert: job.phase, job.progress
JobProgress(jb, p) == [jb EXCEPT !.phase = p.phase, !.progress = p.percent]

RECURSIVE JobProgressAll(_, _)
JobProgressAll(jb, evs) ==
    IF evs = <<>> THEN jb ELSE JobProgressAll(JobProgress(jb, Head(evs)), Tail(evs))

ProgressMsgs(evs) == [i \in 1..Len(evs) |-> Sse("progress", evs[i])]

\* the end of the background task of POST /convert
JobSettled(jb, fin, t) ==
    IF fin.t = "returned"
    THEN [jb EXCEPT !.status = "done", !.progress = 100, !.doneAt = Some(t)]
    ELSE [jb EXCEPT !.status = "error", !.error = Some(fin.msg), !.doneAt = Some(t)]

TerminalMsgs(fin) ==
    IF fin.t = "returned" THEN <<Sse("done", [ok |-> TRUE])>>
    ELSE <<Sse("joberror", [error |-> fin.msg])>>

\* ------------------------------------------------- pipeline: one turn
Pending == [t |-> "none"]
Returned == [t |-> "returned"]
Thrown(msg) == [t |-> "thrown", msg |-> msg]

\* One turn of run r: ch are the fields of the run that change, evs the events
\* passed to onProgress, fin how the call ends in this turn (if it does) and
\* files the file system the turn leaves.  For a job the caller's callback and
\* the code after the await in POST /convert run in the same turn.
Turn(r, ch, evs, fin, files) ==
    LET isJob == run[r].kind = "job"
        r1 == With(run[r], ch)
        r2 == [r1 EXCEPT !.events = @ \o evs,
                         !.pc = IF fin.t = "none" THEN @ ELSE fin.t,
                         !.error = IF fin.t = "thrown" THEN Some(fin.msg) ELSE @]
        j1 == JobProgressAll(job[r], evs)
        j2 == IF fin.t = "none" THEN j1 ELSE JobSettled(j1, fin, now)
        ms == ProgressMsgs(evs) \o (IF fin.t = "none" THEN <<>> ELSE TerminalMsgs(fin))
        f1 == IF fin.t = "thrown" /\ job[r].outputPath # Undef
              THEN safeUnlink(files, Val(job[r].outputPath)) ELSE files
        f2 == IF fin.t = "none" THEN files ELSE safeUnlink(f1, run[r].options.input)
    IN  /\ run' = [run EXCEPT ![r] = r2]
        /\ job' = IF isJob THEN [job EXCEPT ![r] = j2] ELSE job
        /\ sub' = IF isJob THEN emitJob(sub, job[r].emitter, ms) ELSE sub
        /\ fs' = IF isJob THEN f2 ELSE files
        /\ UNCHANGED <<now, jobs, timers, resp, nreq, aside>>

\* the finally block: fs.unlinkSync(palettePath); when it throws the file stays
ReleasePalette(files, r, unlinked) ==
    IF unlinked THEN safeUnlink(files, Val(run[r].palettePath)) ELSE files

\* faulty variant: the error of unlinkSync leaves the finally block
finallyOutcome_Masks(fin, unlinked) == IF unlinked THEN fin ELSE Thrown(MsgUnlinkFailed)

\* the catch inside the finally block: the way the try block ended stands
finallyOutcome(fin, unlinked) == fin

\* faulty variant: the output is not looked at before the palette phase
OutputBlocked_Never(files, options) == FALSE

\* !options.overwrite && fileExists(options.output)
OutputBlocked(files, options) == ~options.overwrite /\ Exists(files, options.output)

Ended(r, o) == Append(run[r].exits, o)

PaletteEvent(percent) == [phase |-> "palette", percent |-> percent]
DoneEvent == [phase |-> "done", percent |-> 100]

\* convertVideoToGifWithProgress up to its first await: ensureFfmpegAvailable
Begin(kind, pid, options) ==
    [NoRun EXCEPT !.kind = kind, !.pid = pid, !.pc = "ensure", !.options = options,
                  !.calls = <<Spawn("ffmpeg", VersionArgs)>>]

\* `ffmpeg -version` has ended: the validation, then the palette invocation
EnsureExit(r, o) ==
    /\ run[r].pc = "ensure"
    /\ LET options == run[r].options
           palettePath == PalettePath(run[r].pid, now)
           ended == [exits |-> Ended(r, o)]
       IN  IF o.ev = "error" \/ ExitCode(o) # 0
           THEN Turn(r, ended, <<>>, Thrown(MsgEngineUnavailable), fs)
           ELSE IF ~Exists(fs, options.input)
           THEN Turn(r, ended, <<>>, Thrown(MsgInputNotFound), fs)
           ELSE IF OutputBlocked(fs, options)
           THEN Turn(r, ended, <<>>, Thrown(MsgOutputExists), fs)
           ELSE Turn(r, [pc |-> "palette", palettePath |-> Some(palettePath),
                         exits |-> Ended(r, o),
                         calls |-> Append(run[r].calls,
                                     Spawn("ffmpeg", PaletteArgs(options, palettePath)))],
                     <<PaletteEvent(0)>>, Pending, fs)

\* the palette invocation has ended (runFfmpeg), then the duration probe starts
PaletteExit(r, o, wrote, unlinked) ==
    /\ run[r].pc = "palette"
    /\ EngineWrites(o, wrote)
    /\ wrote => EngineMayWrite(Last(run[r].calls).args, fs, Val(run[r].palettePath))
    /\ LET p == Val(run[r].palettePath)
           files == IF wrote THEN WriteFile(fs, p, <<"palette", r>>) ELSE fs
           ended == [exits |-> Ended(r, o)]
       IN  IF o.ev = "error"
           THEN Turn(r, ended, <<>>, finallyOutcome(Thrown(MsgSpawnFailed), unlinked),
                     ReleasePalette(files, r, unlinked))
           ELSE IF ExitCode(o) # 0
           THEN Turn(r, ended, <<>>, finallyOutcome(Thrown(MsgEngineFailed), unlinked),
                     ReleasePalette(files, r, unlinked))
           ELSE Turn(r, [pc |-> "probe", exits |-> Ended(r, o),
                         calls |-> Append(run[r].calls,
                                     Spawn("ffprobe", ProbeArgs(run[r].options)))],
                     <<PaletteEvent(10)>>, Pending, files)

\* getDurationMs: Number(stdout.trim()) of a plain decimal, else not a number
getDurationMs(o, stdout) ==
    IF o.ev = "error" \/ ExitCode(o) # 0 THEN Undef
    ELSE LET dec == MatchDecimal(Trim(stdout))
         IN  IF dec = <<>> THEN Undef
             ELSE IF NumVal(dec[1]) = 0 /\ NumVal(dec[2]) = 0 THEN Undef
             ELSE Some(DoubleFloor(DoubleTimes(NumberOf(dec[1], dec[2]), 1000)))

\* faulty variant: getDurationMs without its try/catch and its code test
ProbeExit_Propagates(r, o, stdout) ==
    /\ run[r].pc = "probe"
    /\ LET options == run[r].options
           durationMs == computeEffectiveDurationMs(getDurationMs(o, stdout),
                             parseTimeToMs(options.start), parseTimeToMs(options.duration))
       IN  IF o.ev = "error" \/ ExitCode(o) # 0
           THEN Turn(r, [exits |-> Ended(r, o)], <<>>, Thrown(MsgSpawnFailed),
                     ReleasePalette(fs, r, TRUE))
           ELSE Turn(r, [pc |-> "encode", durationMs |-> durationMs, exits |-> Ended(r, o),
                         calls |-> Append(run[r].calls,
                                     Spawn("ffmpeg", EncodeArgs(options, Val(run[r].palettePath))))],
                     <<>>, Pending, fs)

\* ffprobe has ended: the effective duration, then the encode invocation
ProbeExit(r, o, stdout) ==
    /\ run[r].pc = "probe"
    /\ LET options == run[r].options
           fullDurationMs == getDurationMs(o, stdout)
           startMs == parseTimeToMs(options.start)
           explicitDurationMs == parseTimeToMs(options.duration)
           durationMs == computeEffectiveDurationMs(fullDurationMs, startMs,
                                                    explicitDurationMs)
       IN  Turn(r, [pc |-> "encode", durationMs |-> durationMs, exits |-> Ended(r, o),
                    calls |-> Append(run[r].calls,
                                Spawn("ffmpeg", EncodeArgs(options, Val(run[r].palettePath))))],
                <<>>, Pending, fs)

\* flushBlock on a block that is not empty, and the callback given to
\* runFfmpegWithProgress
FlushBlock(r, raw) == <<EncodeEvent([outTimeMs |-> parseOutTimeMs(raw), raw |-> raw],
                                    run[r].durationMs)>>

\* stdout 'data' that completes a telemetry block
EncodeBlock(r, raw) ==
    /\ run[r].pc = "encode"
    /\ run[r].blocks < MaxBlocks
    /\ Turn(r, [blocks |-> run[r].blocks + 1], FlushBlock(r, raw), Pending, fs)

\* The encode invocation has ended: 'error', or 'close' with the block still
\* pending in `current` (pending = {} when it is empty).
EncodeExit(r, o, pending, wrote, unlinked) ==
    /\ run[r].pc = "encode"
    /\ EngineWrites(o, wrote)
    /\ pending # Undef => o.ev = "close" /\ run[r].blocks < MaxBlocks
    /\ wrote => EngineMayWrite(Last(run[r].calls).args, fs, run[r].options.output)
    /\ LET files == IF wrote THEN WriteFile(fs, run[r].options.output, <<"gif", r>>)
                    ELSE fs
           flushed == IF pending = Undef THEN <<>> ELSE FlushBlock(r, Val(pending))
           ch == [blocks |-> run[r].blocks + Len(flushed), exits |-> Ended(r, o)]
           left == ReleasePalette(files, r, unlinked)
       IN  IF o.ev = "error"
           THEN Turn(r, ch, <<>>, finallyOutcome(Thrown(MsgSpawnFailed), unlinked), left)
           ELSE IF ExitCode(o) # 0
           THEN Turn(r, ch, flushed, finallyOutcome(Thrown(MsgEngineFailed), unlinked), left)
           ELSE Turn(r, ch, flushed \o <<DoneEvent>>, finallyOutcome(Returned, unlinked),
                     left)

\* ------------------------------------------------------ the callers
\* parseTimeString of the server: a trimmed form field, or undefined
parseTimeString(value) ==
    IF value = Undef THEN Undef
    ELSE IF Len(Trim(Val(value))) > 0 THEN Some(Trim(Val(value))) ELSE Undef

\* parseLoop
parseLoop(value) == IF value = Some(<<"1">>) THEN 1 ELSE 0

\* scheduleJobCleanup: setTimeout(..., jobTtlMs + 1000)
scheduleJobCleanup(t) == Some(t + jobTtlMs + CleanupSlackMs)

\* POST /convert with an uploaded file: the job, its cleanup timer, and the
\* background task up to its first await.  Job ids are fresh (randomUUID).
Submit(start, duration, loop) ==
    \E j \in RunIds :
        /\ run[j].kind = "none"
        /\ \A k \in RunIds : k < j => run[k].kind # "none"
        /\ LET options == [input |-> UploadPath(j), output |-> JobOutputPath(j),
                           width |-> 480, fps |-> 15,
                           start |-> parseTimeString(start),
                           duration |-> parseTimeString(duration),
                           overwrite |-> TRUE, loop |-> parseLoop(loop)]
           IN  /\ run' = [run EXCEPT ![j] = Begin("job", ServerPid, options)]
               /\ job' = [job EXCEPT ![j] =
                            [NoJob EXCEPT !.status = "running", !.createdAt = now,
                                          !.outputPath = Some(options.output)]]
        /\ jobs' = jobs \cup {j}
        /\ timers' = [timers EXCEPT ![j] = scheduleJobCleanup(now)]
        /\ fs' = WriteFile(fs, UploadPath(j), <<"video">>)
        /\ UNCHANGED <<now, sub, resp, nreq, aside>>

\* convertVideoToGifWithProgress called directly (the command line)
Call(options) ==
    /\ run[1].kind = "none"
    /\ run' = [run EXCEPT ![1] = Begin("direct", CliPid, options)]
    /\ UNCHANGED <<fs, now, jobs, job, timers, sub, resp, nreq, aside>>

\* a second direct call in the same process, on run 2 of the model
CallAgain(options) ==
    /\ run[1].kind # "none"
    /\ run[2].kind = "none"
    /\ run' = [run EXCEPT ![2] = Begin("direct", CliPid, options)]
    /\ UNCHANGED <<fs, now, jobs, job, timers, sub, resp, nreq, aside>>

\* the first event of a stream: the job's status snapshot
Snapshot(jb) ==
    Sse("status", [status |-> jb.status, progress |-> jb.progress, phase |-> jb.phase])

\* GET /jobs/:id/events
Subscribe(s, id) ==
    /\ sub[s].state = "free"
    /\ IF id \notin jobs
       THEN /\ nreq < MaxReqs
            /\ resp' = [op |-> "events", id |-> id, code |-> 404, body |-> ""]
            /\ nreq' = nreq + 1
            /\ UNCHANGED <<sub, job>>
       ELSE /\ sub' = [sub EXCEPT ![s] =
                         [state |-> "open", job |-> id, received |-> <<Snapshot(job[id])>>,
                          ended |-> FALSE, subAt |-> Len(run[id].events)]]
            /\ job' = [job EXCEPT ![id].emitter = @ \cup {s}]
            /\ UNCHANGED <<resp, nreq>>
    /\ UNCHANGED <<run, fs, now, jobs, timers, aside>>

\* faulty variant: a disconnect removes every listener of the emitter
Off_AllListeners(emitter, s) == {}

\* req.on("close"): the three listeners of this request are removed
Off(emitter, s) == emitter \ {s}

Disconnect(s) ==
    /\ sub[s].state = "open"
    /\ sub' = [sub EXCEPT ![s].state = "closed"]
    /\ job' = [job EXCEPT ![sub[s].job].emitter = Off(@, s)]
    /\ UNCHANGED <<run, fs, now, jobs, timers, resp, nreq, aside>>

\* faulty variant: the status error is not looked at
ResultResponse_NoErrorBranch(id) ==
    IF id \notin jobs
    THEN [op |-> "result", id |-> id, code |-> 404, body |-> MsgJobNotFound]
    ELSE IF job[id].status # "done" \/ job[id].outputPath = Undef
    THEN [op |-> "result", id |-> id, code |-> 409, body |-> MsgNotReady]
    ELSE [op |-> "result", id |-> id, code |-> 200, body |-> "image/gif"]

\* GET /jobs/:id/result
ResultResponse(id) ==
    IF id \notin jobs
    THEN [op |-> "result", id |-> id, code |-> 404, body |-> MsgJobNotFound]
    ELSE IF job[id].status = "error"
    THEN [op |-> "result", id |-> id, code |-> 409,
          body |-> IF job[id].error = Undef THEN MsgJobFailedDefault
                   ELSE Val(job[id].error)]
    ELSE IF job[id].status # "done" \/ job[id].outputPath = Undef
    THEN [op |-> "result", id |-> id, code |-> 409, body |-> MsgNotReady]
    ELSE IF Exists(fs, Val(job[id].outputPath))
    THEN [op |-> "result", id |-> id, code |-> 200, body |-> "image/gif"]
    ELSE [op |-> "result", id |-> id, code |-> 500, body |-> "Erro ao ler o GIF gerado."]

FetchResult(id) ==
    /\ nreq < MaxReqs
    /\ resp' = ResultResponse(id)
    /\ nreq' = nreq + 1
    /\ UNCHANGED <<run, fs, now, jobs, job, timers, sub, aside>>

\* the callback of scheduleJobCleanup
CleanupFire(j) ==
    /\ timers[j] # Undef
    /\ now >= Val(timers[j])
    /\ timers' = [timers EXCEPT ![j] = Undef]
    /\ IF j \notin jobs \/ now - job[j].createdAt < jobTtlMs
       THEN UNCHANGED <<fs, jobs>>
       ELSE /\ fs' = IF job[j].outputPath # Undef
                     THEN safeUnlink(fs, Val(job[j].outputPath)) ELSE fs
            /\ jobs' = jobs \ {j}
    /\ UNCHANGED <<run, now, job, sub, resp, nreq, aside>>

\* Time passes; a timer that is due runs before the clock moves on.
Tick ==
    /\ now < MaxTicks * TickMs
    /\ \A j \in RunIds : timers[j] # Undef => now < Val(timers[j])
    /\ now' = now + TickMs
    /\ UNCHANGED <<run, fs, jobs, job, timers, sub, resp, nreq, aside>>

\* ------------------------------------------------------------ inputs
Block(us, ms) == [out_time_us |-> us, out_time_ms |-> ms]
Blocks == {Block(Digits(2000000), Digits(2000000)),
           Block(Missing, Digits(60000000)),
           Block(Missing, Digits(60000001)),
           Block(Text, Text)}
ServerBlocks == {Block(Digits(2000000), Digits(2000000))}

\* ------------------------------------------------- the server: jobs
\* env: what the engine may do in each phase
ProcessExit(r, env) ==
    \/ \E o \in env.ensure : EnsureExit(r, o)
    \/ \E o \in env.palette, wrote \in BOOLEAN, unlinked \in env.unlink :
          PaletteExit(r, o, wrote, unlinked)
    \/ \E o \in env.probe, stdout \in env.stdout : ProbeExit(r, o, stdout)
    \/ \E o \in env.encode, pending \in env.pending, wrote \in BOOLEAN,
             unlinked \in env.unlink :
          EncodeExit(r, o, pending, wrote, unlinked)

EngineStep(env) ==
    \E r \in RunIds :
        \/ ProcessExit(r, env)
        \/ \E raw \in env.blocks : EncodeBlock(r, raw)

ServerEnv ==
    [ensure |-> {Close(Some(0)), Close(Some(1))},
     palette |-> {Close(Some(0)), Close(Some(1))},
     probe |-> {Close(Some(0))},
     stdout |-> {<<"4", ".", "0", "0">>},
     blocks |-> ServerBlocks,
     pending |-> {Undef},
     encode |-> {Close(Some(0)), Close(Some(1)), Close(Undef)},
     unlink |-> {TRUE}]

Next ==
    \/ \E start \in {Undef}, duration \in {Undef}, loop \in {Undef} :
          Submit(start, duration, loop)
    \/ EngineStep(ServerEnv)
    \/ \E j \in RunIds : CleanupFire(j)
    \/ Tick

Spec == Init /\ [][Next]_vars

\* Every engine process that was spawned ends, and a due timer runs.
LiveSpec ==
    /\ Spec
    /\ \A r \in RunIds : WF_vars(ProcessExit(r, ServerEnv))
    /\ \A j \in RunIds : WF_vars(CleanupFire(j))

\* --------------------------------------------------- claims: the jobs
InFlight(r) == run[r].pc \in {"palette", "probe", "encode"}
Finished(r) == run[r].pc \in {"returned", "thrown"}
Settles(j) == job[j].status = "running" /\ job'[j].status # "running"

\* C1: every submitted job leaves status running; when it does, it is either
\* done with its output artifact in storage or error with a stored message
\* that is not empty, one of the two and not both.
C1_JobEndsDoneWithArtifactOrFailed ==
    /\ \A j \in RunIds : (job[j].status = "running") ~> (job[j].status # "running")
    /\ [][\A j \in RunIds : Settles(j) =>
            \/ /\ job'[j].status = "done"
               /\ Exists(fs', Val(job'[j].outputPath))
               /\ job'[j].error = Undef
            \/ /\ job'[j].status = "error"
               /\ job'[j].error # Undef
               /\ Val(job'[j].error) # ""]_vars

\* C3: once a run has returned or thrown, no file exists at its palette path.
C3_NoPaletteAfterRun ==
    \A r \in RunIds :
        Finished(r) /\ run[r].palettePath # Undef => ~Exists(fs, Val(run[r].palettePath))

\* C4: two conversions in flight at the same time use different palette paths.
C4_PalettePathsDistinct ==
    \A r1, r2 \in RunIds :
        r1 # r2 /\ InFlight(r1) /\ InFlight(r2) => run[r1].palettePath # run[r2].palettePath

\* C9: once the time-to-live (and the timer's margin) has elapsed past a job's
\* completion, the id is unknown and the output artifact is not in storage.
C9_ExpiredJobAndArtifactGone ==
    \A j \in RunIds :
        job[j].doneAt # Undef /\ now > Val(job[j].doneAt) + jobTtlMs + CleanupSlackMs
            => j \notin jobs /\ ~Exists(fs, Val(job[j].outputPath))

\* ------------------------------------------- one direct conversion
RunEnv ==
    [ensure |-> Outcomes, palette |-> Outcomes, probe |-> Outcomes,
     stdout |-> {<<"4", ".", "0", "0">>, <<"1", "2", "0">>, <<"N", "/", "A">>, <<"0">>},
     blocks |-> Blocks,
     pending |-> {Undef} \cup {Some(b) : b \in Blocks}, encode |-> Outcomes,
     unlink |-> BOOLEAN]

RunOptions ==
    [input : {CliInputPath}, output : {CliOutputPath}, width : {480}, fps : {15},
     start : {Undef, Some(<<"2", ".", "5">>)},
     duration : {Undef, Some(<<"0", "0", ":", "0", "0", ":", "0", "3">>), Some(<<"0">>)},
     overwrite : BOOLEAN, loop : {0}]

InitRun ==
    /\ run = [r \in RunIds |-> NoRun]
    \* the input and the output of the call may exist or not
    /\ fs \in
        {<<>>, CliInputPath :> <<"video">>, CliOutputPath :> <<"old">>,
         (CliInputPath :> <<"video">>) @@ (CliOutputPath :> <<"old">>)}
    /\ now = 0
    /\ jobs = {}
    /\ job = [j \in RunIds |-> NoJob]
    /\ timers = [j \in RunIds |-> Undef]
    /\ sub = [s \in SubIds |-> NoSub]
    /\ resp = NoResp
    /\ nreq = 0
    /\ proc = NoProc
    /\ input = <<>>
    /\ result = Undef

NextRun ==
    \/ \E options \in RunOptions : Call(options)
    \/ EngineStep(RunEnv)

SpecRun == InitRun /\ [][NextRun]_vars

\* ------------------------------------------- claims: one conversion
Percents(evs) == [i \in 1..Len(evs) |-> evs[i].percent]
NonDecreasing(ps) == \A i \in 1..(Len(ps) - 1) : ps[i] <= ps[i + 1]

\* C2: in a successful run the percents passed to onProgress never decrease,
\* a palette event has percent <= 10, and the last event is done with 100.
C2_PercentMonotoneToHundred ==
    \A r \in RunIds :
        run[r].pc = "returned" =>
            /\ NonDecreasing(Percents(run[r].events))
            /\ \A i \in 1..Len(run[r].events) :
                  run[r].events[i].phase = "palette" => run[r].events[i].percent <= 10
            /\ Last(run[r].events) = DoneEvent

\* the arguments between `-v error` and the first `-i`
TrimArgs(args) ==
    LET from == CHOOSE i \in 1..Len(args) : args[i] = Flag("error")
        to == CHOOSE i \in 1..Len(args) :
                  args[i] = Flag("-i") /\ \A k \in 1..(i - 1) : args[k] # Flag("-i")
    IN  SubSeq(args, from + 1, to - 1)

EncodeStarted(r) == Len(run[r].calls) = 4

\* C5: the trim arguments of the encode invocation are the same sequence as
\* those of the palette invocation of the run, whatever start and duration are.
C5_SameTrimInBothPhases ==
    \A r \in RunIds :
        EncodeStarted(r) =>
            TrimArgs(run[r].calls[4].args) = TrimArgs(run[r].calls[2].args)

C5_Witness ==
    \E r \in RunIds :
        /\ EncodeStarted(r)
        /\ Truthy(run[r].options.start) /\ Truthy(run[r].options.duration)
        /\ Len(TrimArgs(run[r].calls[4].args)) = 4

\* ------------------------------------- the server: one job, observed
SubsEnv ==
    [ensure |-> {Close(Some(0)), Close(Some(1))},
     palette |-> {Close(Some(0))},
     probe |-> {Close(Some(0))},
     stdout |-> {<<"4", ".", "0", "0">>},
     blocks |-> ServerBlocks,
     pending |-> {Undef},
     encode |-> {Close(Some(0)), Close(Some(1))},
     unlink |-> {TRUE}]

SubmitOne ==
    /\ run[1].kind = "none"
    /\ \E start \in {Undef}, duration \in {Undef}, loop \in {Undef} :
          Submit(start, duration, loop)

NextSubs ==
    \/ SubmitOne
    \/ EngineStep(SubsEnv)
    \/ \E s \in SubIds : Subscribe(s, 1)
    \/ \E s \in SubIds : Disconnect(s)

SpecSubs == Init /\ [][NextSubs]_vars

\* ------------------------------- the server: one job and its requests
NextHttp ==
    \/ SubmitOne
    \/ EngineStep(SubsEnv)
    \/ \E id \in RunIds : Subscribe(1, id)
    \/ Disconnect(1)
    \/ \E id \in RunIds : FetchResult(id)
    \/ \E j \in RunIds : CleanupFire(j)
    \/ Tick

SpecHttp == Init /\ [][NextHttp]_vars

\* ------------------------------------------- claims: the observers
Terminal(m) == m.event \in {"done", "joberror"}
Terminals(s) == SelectSeq(sub[s].received, Terminal)
\* what was received, without a terminal event at its end
Body(s) ==
    LET rc == sub[s].received
    IN  IF Len(rc) > 0 /\ Terminal(Last(rc)) THEN SubSeq(rc, 1, Len(rc) - 1) ELSE rc

\* the snapshot and the progress events that follow subscriber s's subscription
Expected(s) ==
    LET evs == run[sub[s].job].events
        k == sub[s].subAt
        seen == IF k = 0 THEN PaletteEvent(0) ELSE evs[k]
    IN  <<seen>> \o SubSeq(evs, k + 1, Len(evs))

IsPrefix(a, b) == Len(a) <= Len(b) /\ SubSeq(b, 1, Len(a)) = a

\* what subscriber s was sent, as {phase, percent} of the snapshot and events
Seen(s) ==
    LET b == Body(s)
    IN  [i \in 1..Len(b) |->
            IF i = 1 THEN [phase |-> b[1].data.phase, percent |-> b[1].data.progress]
            ELSE [phase |-> b[i].data.phase, percent |-> b[i].data.percent]]
Brief(evs) == [i \in 1..Len(evs) |-> [phase |-> evs[i].phase, percent |-> evs[i].percent]]

\* C6: an observer receives first the status snapshot, equal to the last
\* progress event before its subscription (palette, 0 if none), then every
\* later progress event once and in order (those up to its disconnect, if it
\* disconnects).
C6_SnapshotThenEveryProgressEvent ==
    \A s \in SubIds :
        sub[s].state # "free" =>
            /\ sub[s].received[1].event = "status"
            /\ sub[s].received[1].data.status \in {"running", "done", "error"}
            /\ sub[s].received[1].data.status = "done"
                  <=> sub[s].received[1].data.phase = "done"
            /\ Len(Expected(s)) > 1 => sub[s].received[1].data.status = "running"
            /\ \A i \in 2..Len(Body(s)) :
                  /\ Body(s)[i].event = "progress"
                  /\ Body(s)[i].data = run[sub[s].job].events[sub[s].subAt + i - 1]
            /\ IF sub[s].state = "open"
               THEN Seen(s) = Brief(Expected(s))
               ELSE IsPrefix(Seen(s), Brief(Expected(s)))

C6_Witness ==
    \E s \in SubIds :
        /\ sub[s].state = "open"
        /\ sub[s].subAt >= 2
        /\ Len(Body(s)) >= 3

\* C7: an observer that stays connected receives exactly one terminal event,
\* whenever it subscribed, and its stream is closed by it.
C7_ExactlyOneTerminalEvent ==
    \A s \in SubIds :
        /\ Len(Terminals(s)) <= 1
        /\ sub[s].state = "open" /\ job[sub[s].job].status \in {"done", "error"}
              => Len(Terminals(s)) = 1 /\ sub[s].ended

\* C8: the result of an unknown id is JobNotFound, of a failed job JobFailed
\* with the stored message, of a running job JobNotReady, and the artifact is
\* granted only for a done job; the events of an unknown id are JobNotFound.
C8_ResultAndEventsErrors ==
    [][nreq' # nreq =>
        LET id == resp'.id
        IN  IF resp'.op = "events" THEN id \notin jobs /\ resp'.code = 404
            ELSE /\ resp'.op = "result"
                 /\ id \notin jobs => resp'.code = 404 /\ resp'.body = MsgJobNotFound
                 /\ id \in jobs /\ job[id].status = "error" =>
                       resp'.code = 409 /\ resp'.body = Val(job[id].error)
                 /\ id \in jobs /\ job[id].status = "running" =>
                       resp'.code = 409 /\ resp'.body = MsgNotReady
                 /\ resp'.code = 200 => id \in jobs /\ job[id].status = "done"]_vars

C8_Witness ==
    /\ resp.op = "result" /\ resp.code = 409
    /\ job[resp.id].status = "error"
    /\ resp.body = MsgEngineFailed

\* the messages that one turn of job j sends to its listeners
Produced(j) ==
    ProgressMsgs(SubSeq(run'[j].events, Len(run[j].events) + 1, Len(run'[j].events)))
    \o (IF ~Settles(j) THEN <<>>
        ELSE IF job'[j].status = "done" THEN <<Sse("done", [ok |-> TRUE])>>
        ELSE <<Sse("joberror", [error |-> Val(job'[j].error)])>>)

\* C10: a disconnect removes the listeners of that subscriber only and changes
\* nothing else of the job, the conversion or the other subscribers, and every
\* subscriber that is still connected receives all that the job emits later.
C10_DisconnectDetachesOnlyThatObserver ==
    [][/\ \A s \in SubIds :
             sub[s].state = "open" /\ sub'[s].state = "closed" =>
                 /\ job'[sub[s].job].emitter = job[sub[s].job].emitter \ {s}
                 /\ \A t \in SubIds \ {s} : sub'[t] = sub[t]
                 /\ \A j \in RunIds : [job'[j] EXCEPT !.emitter = {}] = [job[j] EXCEPT !.emitter = {}]
                 /\ run' = run /\ fs' = fs /\ jobs' = jobs
       /\ \A t \in SubIds :
             sub[t].state = "open" /\ sub'[t].state = "open" /\ ~sub[t].ended =>
                 sub'[t].received = sub[t].received \o Produced(sub[t].job)]_vars

C10_Witness ==
    \E s, t \in SubIds :
        /\ sub[s].state = "closed" /\ sub[t].state = "open"
        /\ sub[s].job = sub[t].job /\ sub[s].subAt = sub[t].subAt
        /\ Len(sub[t].received) > Len(sub[s].received)
        /\ sub[t].ended

\* ------------------------------- two direct conversions of one file
PairEnv ==
    [ensure |-> {Close(Some(0)), SpawnError},
     palette |-> {Close(Some(0))},
     probe |-> {Close(Some(0))},
     stdout |-> {<<"4", ".", "0", "0">>},
     blocks |-> ServerBlocks,
     pending |-> {Undef},
     encode |-> {Close(Some(0)), Close(Some(1))},
     unlink |-> {TRUE}]

PairOptions ==
    [input : {CliInputPath}, output : {CliOutputPath}, width : {480}, fps : {15},
     start : {Undef}, duration : {Undef}, overwrite : BOOLEAN, loop : {0}]

\* the input exists; the output exists or not
PairFiles ==
    {CliInputPath :> <<"video">>,
     (CliInputPath :> <<"video">>) @@ (CliOutputPath :> <<"old">>)}

InitPair ==
    /\ run = [r \in RunIds |-> NoRun]
    /\ fs \in PairFiles
    /\ now = 0
    /\ jobs = {}
    /\ job = [j \in RunIds |-> NoJob]
    /\ timers = [j \in RunIds |-> Undef]
    /\ sub = [s \in SubIds |-> NoSub]
    /\ resp = NoResp
    /\ nreq = 0
    /\ proc = NoProc
    /\ input = <<>>
    /\ result = Undef

NextPair ==
    \/ \E options \in PairOptions : Call(options)
    \/ \E options \in PairOptions : CallAgain(options)
    \/ EngineStep(PairEnv)

SpecPair == InitPair /\ [][NextPair]_vars

\* ------------------------------------- claims: the output that exists
Succeeded(o) == o = Close(Some(0))
\* run r takes a step
Steps(r) == run'[r] # run[r]

\* C11: when the engine is available, the input exists, the output exists and
\* overwrite is not requested, the call throws OutputExists with no process
\* spawned but the version query, no progress event, and the files as they
\* were (so that the next attempt meets the same files and fails the same).
C11_OutputExistsBeforeAnyWork ==
    [][\A r \in RunIds :
          /\ run[r].pc = "ensure" /\ Steps(r)
          /\ Succeeded(Last(run'[r].exits))
          /\ Exists(fs, run[r].options.input)
          /\ Exists(fs, run[r].options.output)
          /\ ~run[r].options.overwrite
          => /\ run'[r].pc = "thrown"
             /\ run'[r].error = Some(MsgOutputExists)
             /\ run'[r].calls = <<Spawn("ffmpeg", VersionArgs)>>
             /\ run'[r].events = <<>>
             /\ fs' = fs]_vars

C11_Witness ==
    /\ \A r \in {1, 2} :
          /\ run[r].pc = "thrown" /\ run[r].error = Some(MsgOutputExists)
          /\ run[r].exits = <<Close(Some(0))>>
    /\ fs[CliOutputPath] = <<"old">>

OverwriteFlags(args) == SelectSeq(args, LAMBDA a : IsFlag(a, "-y") \/ IsFlag(a, "-n"))

\* C12: the encode invocation has -y when options.overwrite is set and -n when
\* it is not; a call with overwrite and an engine that succeeds returns with
\* its own artifact at the output, whatever was there; a call without
\* overwrite never changes an output file that exists, whenever it appeared.
C12_OverwriteFlagMatchesRequest ==
    /\ [](\A r \in RunIds :
            /\ EncodeStarted(r) =>
                  OverwriteFlags(run[r].calls[4].args)
                      = IF run[r].options.overwrite THEN <<Flag("-y")>> ELSE <<Flag("-n")>>
            /\ Finished(r) /\ run[r].options.overwrite
                  /\ (\A i \in 1..Len(run[r].exits) : Succeeded(run[r].exits[i]))
                  => run[r].pc = "returned" /\ Len(run[r].exits) = 4)
    /\ [][\A r \in RunIds :
            /\ Steps(r) /\ run'[r].pc = "returned" /\ run[r].options.overwrite
                  /\ Succeeded(Last(run'[r].exits))
                  => fs'[run[r].options.output] = <<"gif", r>>
            /\ Steps(r) /\ run[r].kind # "none" /\ ~run[r].options.overwrite
                  /\ Exists(fs, run[r].options.output)
                  => /\ Exists(fs', run[r].options.output)
                     /\ fs'[run[r].options.output] = fs[run[r].options.output]]_vars

\* the output appeared between the validation and the encode phase of run 1
C12_Witness ==
    /\ run[1].pc = "thrown" /\ ~run[1].options.overwrite /\ Len(run[1].exits) = 4
    /\ run[2].pc = "returned" /\ run[2].options.overwrite
    /\ fs[CliOutputPath] = <<"gif", 2>>

\* ------------------------------------------ claims: the duration probe
\* C13: the end of the probe, however it ends, only sets the duration and
\* starts the encode invocation of the call's options (no event, no error, no
\* file changed); and how the call ends is decided by the exit of the encode
\* invocation alone.
C13_ProbeFailureNeverFails ==
    /\ [][\A r \in RunIds :
            run[r].pc = "probe" /\ Steps(r) =>
                /\ run'[r] = [run[r] EXCEPT
                                !.pc = "encode",
                                !.durationMs = run'[r].durationMs,
                                !.exits = run'[r].exits,
                                !.calls = Append(@, Spawn("ffmpeg",
                                            EncodeArgs(run[r].options, Val(run[r].palettePath))))]
                /\ Len(run'[r].exits) = 3
                /\ fs' = fs]_vars
    /\ [](\A r \in RunIds :
            Finished(r) /\ Len(run[r].exits) = 4 =>
                LET o == run[r].exits[4]
                IN  /\ run[r].pc = "returned" <=> o.ev = "close" /\ ExitCode(o) = 0
                    /\ run[r].pc = "thrown" =>
                          run[r].error = IF o.ev = "error" THEN Some(MsgSpawnFailed)
                                         ELSE Some(MsgEngineFailed))

\* ffprobe could not be started, the conversion returned, and a block with an
\* elapsed time was reported at the frozen percent
C13_Witness ==
    \E r \in RunIds :
        /\ run[r].pc = "returned"
        /\ run[r].exits[3] = SpawnError
        /\ \E i \in 1..Len(run[r].events) :
              /\ run[r].events[i].phase = "encode"
              /\ run[r].events[i].outTimeMs # Undef
              /\ run[r].events[i].percent = 10

\* ------------------------------------- claims: the error that is thrown
\* the error of the engine invocation that ended with o
EngineError(o) == IF o.ev = "error" THEN MsgSpawnFailed ELSE MsgEngineFailed
Failed(o) == o.ev = "error" \/ ExitCode(o) # 0

\* C14: when the palette or the encode invocation fails, the call throws the
\* error of that invocation, and when the encode invocation succeeds the call
\* returns, in both cases whether or not the palette file could be deleted.
C14_EngineErrorSurvivesCleanup ==
    [][\A r \in RunIds :
          run[r].pc \in {"palette", "encode"} /\ Steps(r) /\ run'[r].pc # run[r].pc =>
              LET o == Last(run'[r].exits)
              IN  /\ Failed(o) =>
                        /\ run'[r].pc = "thrown"
                        /\ run'[r].error = Some(EngineError(o))
                  /\ ~Failed(o) /\ run[r].pc = "encode" =>
                        /\ run'[r].pc = "returned"
                        /\ run'[r].error = Undef]_vars

\* the encode invocation failed and the palette file could not be deleted
C14_Witness ==
    \E r \in RunIds :
        /\ run[r].pc = "thrown" /\ Len(run[r].exits) = 4
        /\ run[r].error = Some(MsgEngineFailed)
        /\ Exists(fs, Val(run[r].palettePath))

\* ------------------------------------------- claims: the job's status
\* C15: the status of a job changes from running to done or to error and at
\* no other time, whatever the observers, the requests and the cleanup timer
\* do (a job is created with status running).
C15_StatusChangesOnce ==
    [][\A j \in RunIds :
          job'[j].status # job[j].status =>
              \/ job[j].status = "none" /\ job'[j].status = "running"
              \/ job[j].status = "running" /\ job'[j].status \in {"done", "error"}]_vars

\* a job that is done, watched and left by an observer, and removed by the timer
C15_Witness ==
    \E j \in RunIds, s \in SubIds :
        /\ job[j].status = "done" /\ j \notin jobs
        /\ sub[s].state = "closed" /\ sub[s].job = j /\ Len(sub[s].received) >= 2

\* --------------------------------- the time range resolver on its own
\* the pipeline and the server have not started
rest == <<run, fs, now, jobs, job, timers, sub, resp, nreq>>
Quiet ==
    /\ run = [r \in RunIds |-> NoRun]
    /\ fs = <<>>
    /\ now = 0
    /\ jobs = {}
    /\ job = [j \in RunIds |-> NoJob]
    /\ timers = [j \in RunIds |-> Undef]
    /\ sub = [s \in SubIds |-> NoSub]
    /\ resp = NoResp
    /\ nreq = 0

Millis == {Undef} \cup {Some(v) : v \in {0, 2000, 5000, 10000}}

InitDuration ==
    /\ Quiet
    /\ proc = NoProc
    /\ input \in [full : Millis, start : Millis, explicit : Millis]
    /\ result = Undef

ResolveDuration ==
    /\ result = Undef
    /\ result' = Some(computeEffectiveDurationMs(input.full, input.start, input.explicit))
    /\ UNCHANGED <<rest, proc, input>>

SpecDuration == InitDuration /\ [][ResolveDuration]_vars

\* C16: the value is the explicit duration when there is one (0 and values
\* beyond full - start included); else unknown when full is unknown; else full
\* when start is unknown and the larger of 0 and full - start when it is known.
C16_EffectiveDuration ==
    result # Undef =>
        LET v == Val(result)
            full == input.full
            start == input.start
            explicit == input.explicit
        IN  /\ explicit # Undef => v = explicit
            /\ explicit = Undef /\ full = Undef => v = Undef
            /\ explicit = Undef /\ full # Undef /\ start = Undef => v = full
            /\ explicit = Undef /\ full # Undef /\ start # Undef =>
                  /\ v # Undef
                  /\ Val(v) >= 0 /\ Val(v) >= Val(full) - Val(start)
                  /\ Val(v) \in {0, Val(full) - Val(start)}

\* an explicit duration of 0 with a known clip of 8 seconds behind the start
C16_Witness ==
    /\ input = [full |-> Some(10000), start |-> Some(2000), explicit |-> Some(0)]
    /\ result = Some(Some(0))

\* ------------------------------------------------ parseTimeToMs on its own
\* texts of a time: plain seconds, H:M:S, and texts that are neither
TimeTexts ==
    LET WholeTexts == {<<"0">>, <<"1">>, <<"2">>, <<"5", "9">>, <<"1", "2", "0">>}
        FractionTexts ==
            {<<>>,
             <<".", "5">>,
             <<".", "0", "0", "1">>,
             <<".", "2", "5", "0">>,
             <<".", "0", "0", "1", "9">>}
        HourTexts == {<<"0">>, <<"0", "0">>, <<"1">>, <<"0", "1">>}
        MinuteTexts == {<<"0">>, <<"0", "2">>, <<"5", "9">>, <<"6", "0">>}
        SecondTexts ==
            {<<"0">>,
             <<"0", "3">>,
             <<"5", "9">>,
             <<"6", "0">>,
             <<"0", "1", ".", "0", "0", "1">>,
             <<"0", "3", ".", "2", "5", "0">>}
        OtherTexts ==
            {<<>>,
             <<" ">>,
             <<"b", "o", "g", "u", "s">>,
             <<"-", "1">>,
             <<"1", ".">>,
             <<".", "5">>,
             <<"1", ":", "2">>,
             <<"1", ":", "2", ":", "3", ":", "4">>,
             <<" ", "2", ".", "5", " ">>,
             <<"1", "e", "3">>,
             <<"+", "1">>,
             <<"1", ":", "-", "2", ":", "3">>,
             <<"a", ":", "b", ":", "c">>,
             <<"1", ":", "0", "0", "2", ":", "0", "3">>}
    IN  {w \o f : w \in WholeTexts, f \in FractionTexts}
            \cup {h \o <<":">> \o m \o <<":">> \o x :
                     h \in HourTexts, m \in MinuteTexts, x \in SecondTexts}
            \cup OtherTexts

InitTime ==
    /\ Quiet
    /\ proc = NoProc
    /\ input \in TimeTexts
    /\ result = Undef

ParseTime ==
    /\ result = Undef
    /\ result' = Some(parseTimeToMs(Some(input)))
    /\ UNCHANGED <<rest, proc, input>>

SpecTime == InitTime /\ [][ParseTime]_vars

\* the milliseconds that the decimal <int>.<frac> of seconds stands for: the
\* whole seconds and the first three digits of the fraction
MsOfSeconds(int, frac) ==
    LET f3 == SubSeq(frac \o <<"0", "0", "0">>, 1, 3)
    IN  NumVal(int) * 1000 + NumVal(f3)

\* at most two digits that make a number of 0..59
Sixtieth(t) == Len(t) \in {1, 2} /\ AllDigits(t) /\ NumVal(t) <= 59

\* The milliseconds of a time text, blanks around it aside: those of a plain
\* decimal of seconds, or of H:M:S[.fraction], and unknown for all other texts.
TimeSpecMs(text) ==
    LET t == Trim(text)
        dec == MatchDecimal(t)
        colons == Positions(t, ":")
    IN  IF dec # <<>> THEN Some(MsOfSeconds(dec[1], dec[2]))
        ELSE IF Cardinality(colons) # 2 THEN Undef
        ELSE LET c1 == CHOOSE i \in colons : \A k \in colons : i <= k
                 c2 == CHOOSE i \in colons : \A k \in colons : i >= k
                 H == SubSeq(t, 1, c1 - 1)
                 M == SubSeq(t, c1 + 1, c2 - 1)
                 S == MatchDecimal(SubSeq(t, c2 + 1, Len(t)))
             IN  IF AllDigits(H) /\ Sixtieth(M) /\ S # <<>> /\ Sixtieth(S[1])
                 THEN Some(((NumVal(H) * 60 + NumVal(M)) * 60) * 1000
                           + MsOfSeconds(S[1], S[2]))
                 ELSE Undef

\* C17: parseTimeToMs gives the whole milliseconds of a plain decimal of
\* seconds and of H:M:S[.fraction] with minutes and seconds in 0..59, and
\* unknown for every other text.
C17_TimeSpecMilliseconds ==
    result # Undef => Val(result) = TimeSpecMs(input)

\* ------------------------------------- claims: the order of the steps
HasDone(evs) == \E i \in 1..Len(evs) : evs[i] = DoneEvent

\* C18: the palette invocation starts after the version query has ended
\* without failing, with an input that exists and an output that does not stand
\* in the way; the encode invocation starts only after the palette invocation
\* has exited with code 0; done is emitted only after the encode invocation has
\* exited with code 0; a call that throws has started no further process and
\* has emitted no done.
C18_StepsInOrder ==
    /\ [](\A r \in RunIds :
            /\ Len(run[r].calls) >= 2 => ~Failed(run[r].exits[1])
            /\ EncodeStarted(r) => Succeeded(run[r].exits[2])
            /\ HasDone(run[r].events) =>
                  /\ Len(run[r].exits) = 4 /\ Succeeded(run[r].exits[4])
                  /\ Last(run[r].events) = DoneEvent /\ run[r].pc = "returned"
            /\ run[r].pc = "thrown" =>
                  /\ ~HasDone(run[r].events)
                  /\ Len(run[r].calls) = Len(run[r].exits))
    /\ [][\A r \in RunIds :
            /\ run[r].pc = "ensure" /\ run'[r].pc = "palette" =>
                  /\ Exists(fs, run[r].options.input)
                  /\ run[r].options.overwrite \/ ~Exists(fs, run[r].options.output)
            /\ Len(run'[r].calls) > Len(run[r].calls) /\ run[r].kind # "none" =>
                  Len(run'[r].calls) = Len(run'[r].exits) + 1]_vars

\* ------------------------------------ claims: the encode-phase percent
\* C19: the percent of an encode event is a whole number of 10..100, the
\* nearest to 10 + 90 * elapsed / duration with elapsed held within
\* 0..duration (a half goes up); it is 10 when the duration is unknown or 0 or
\* the block has no elapsed time.
C19_EncodePercent ==
    \A r \in RunIds :
        \A i \in 1..Len(run[r].events) :
            LET e == run[r].events[i]
                p == e.percent
            IN  e.phase = "encode" =>
                    /\ p \in 10..100
                    /\ IF e.durationMs # Undef /\ e.durationMs # Some(0) /\ e.outTimeMs # Undef
                       THEN LET d == Val(e.durationMs)
                                c == IF Val(e.outTimeMs) > d THEN d ELSE Val(e.outTimeMs)
                            IN  /\ (2 * p - 1) * d <= 2 * (10 * d + 90 * c)
                                /\ 2 * (10 * d + 90 * c) < (2 * p + 1) * d
                       ELSE p = 10

\* 2 of 120 seconds (11.5, reported as 12) and an elapsed time beyond the duration
C19_Witness ==
    \E r \in RunIds :
        \E i, k \in 1..Len(run[r].events) :
            /\ run[r].events[i].phase = "encode" /\ run[r].events[k].phase = "encode"
            /\ run[r].events[i].durationMs = Some(120000)
            /\ run[r].events[i].outTimeMs = Some(2000) /\ run[r].events[i].percent = 12
            /\ run[r].events[k].outTimeMs = Some(60000000) /\ run[r].events[k].percent = 100

\* --------------------------------- runFfmpegWithProgress on its own
NL == "\n"
\* String.indexOf: the first position of c in s, 0 when there is none
IndexOf(s, c) ==
    IF Positions(s, c) = {} THEN 0
    ELSE CHOOSE i \in Positions(s, c) : \A k \in Positions(s, c) : i <= k

KeyProgress == <<"p", "r", "o", "g", "r", "e", "s", "s">>
ValueEnd == <<"e", "n", "d">>

\* a field of `current` as parseOutTimeMs looks at it
FieldOf(current, key) ==
    IF key \notin DOMAIN current THEN Missing
    ELSE IF AllDigits(current[key]) THEN Digits(NumVal(current[key]))
    ELSE Text
BlockOf(current) ==
    Block(FieldOf(current, <<"o", "u", "t", "_", "t", "i", "m", "e", "_", "u", "s">>),
          FieldOf(current, <<"o", "u", "t", "_", "t", "i", "m", "e", "_", "m", "s">>))

\* flushBlock: the callback gets the block unless it is empty
flushBlock_Always(st) ==
    [st EXCEPT !.calls = Append(@, [outTimeMs |-> parseOutTimeMs(BlockOf(st.current)),
                                    raw |-> st.current]),
               !.late = IF st.state = "running" THEN @ ELSE @ + 1,
               !.current = <<>>]

flushBlock(st) ==
    IF DOMAIN st.current = {} THEN st
    ELSE [st EXCEPT !.calls = Append(@, [outTimeMs |-> parseOutTimeMs(BlockOf(st.current)),
                                         raw |-> st.current]),
                    !.late = IF st.state = "running" THEN @ ELSE @ + 1,
                    !.current = <<>>]

\* the while loop of the 'data' handler: the complete lines of the buffer
RECURSIVE Drain(_)
Drain(st) ==
    LET idx == IndexOf(st.buffer, NL)
    IN  IF idx = 0 THEN st
        ELSE LET line == Trim(SubSeq(st.buffer, 1, idx - 1))
                 s1 == [st EXCEPT !.buffer = SubSeq(st.buffer, idx + 1, Len(st.buffer))]
                 eq == IndexOf(line, "=")
                 k == SubSeq(line, 1, eq - 1)
                 v == SubSeq(line, eq + 1, Len(line))
                 s2 == [s1 EXCEPT !.current = (k :> v) @@ @]
             IN  IF Len(line) = 0 THEN Drain(flushBlock(s1))
                 ELSE IF eq = 0 THEN Drain(s1)
                 ELSE IF k = KeyProgress /\ v = ValueEnd THEN Drain(flushBlock(s2))
                 ELSE Drain(s2)

\* the call, with the child spawned and nothing received; late counts the
\* callbacks made after the promise was settled, and cut tells whether a chunk
\* has ended inside a line (the code keeps neither)
NewProc(out) ==
    [state |-> "running", closed |-> FALSE, out |-> out, buffer |-> <<>>,
     current |-> <<>>, calls |-> <<>>, late |-> 0, cut |-> FALSE]

\* stdout 'data' with the next n characters of the child's output
ProcData(n) ==
    /\ proc.state # "none" /\ ~proc.closed
    /\ n \in 1..Len(proc.out)
    /\ proc' = Drain([proc EXCEPT !.buffer = @ \o SubSeq(proc.out, 1, n),
                                  !.cut = @ \/ (n < Len(proc.out) /\ proc.out[n] # NL),
                                  !.out = SubSeq(proc.out, n + 1, Len(proc.out))])
    /\ UNCHANGED <<rest, input, result>>

\* 'error': the child could not be spawned, it has written nothing
ProcError ==
    /\ proc.state = "running" /\ ~proc.closed
    /\ input = <<>>
    /\ proc' = [proc EXCEPT !.state = "rejected"]
    /\ UNCHANGED <<rest, input, result>>

\* 'close', after the end of stdout: flushBlock, then resolve or reject
ProcClose(o) ==
    /\ proc.state # "none" /\ ~proc.closed
    /\ proc.out = <<>>
    /\ LET st == flushBlock(proc)
       IN  proc' = [st EXCEPT !.closed = TRUE,
                              !.state = IF proc.state # "running" THEN @
                                        ELSE IF ExitCode(o) # 0 THEN "rejected"
                                        ELSE "resolved"]
    /\ UNCHANGED <<rest, input, result>>

\* the lines that the engine may print, and a last line that it leaves open
ProcOutputs ==
    LET LineTexts ==
            {<<"f", "p", "s", "=", "2", "\n">>,
             <<"f", "r", "a", "m", "e", "=", "1", "\n">>,
             <<"\n">>,
             <<" ", "\n">>,
             <<"p", "r", "o", "g", "r", "e", "s", "s", "=", "e", "n", "d", "\n">>,
             <<"f", "f", "m", "p", "e", "g", "\n">>}
        OpenTexts ==
            {<<>>,
             <<"f", "r", "a", "m", "e", "=", "1">>,
             <<"p", "r", "o", "g", "r", "e", "s", "s", "=", "e", "n", "d">>}
        RECURSIVE LinesUpTo(_)
        LinesUpTo(n) ==
            IF n = 0 THEN {<<>>}
            ELSE LinesUpTo(n - 1) \cup {t \o l : t \in LinesUpTo(n - 1), l \in LineTexts}
    IN  {t \o o : t \in LinesUpTo(MaxLines), o \in OpenTexts}

InitProc ==
    /\ Quiet
    /\ input \in ProcOutputs
    /\ proc = NewProc(input)
    /\ result = Undef

NextProc ==
    \/ \E n \in 1..Len(proc.out) : ProcData(n)
    \/ ProcError
    \/ \E o \in {Close(Some(0)), Close(Some(1)), Close(Undef)} : ProcClose(o)

SpecProc == InitProc /\ [][NextProc]_vars

\* ------------------------------------- claims: the telemetry blocks
\* the lines of a text: what a newline ends (a last line that the child left
\* open may be a part of a line, and is no pair)
RECURSIVE LinesOf(_)
LinesOf(text) ==
    LET idx == IndexOf(text, NL)
    IN  IF idx = 0 THEN <<>>
        ELSE <<SubSeq(text, 1, idx - 1)>> \o LinesOf(SubSeq(text, idx + 1, Len(text)))

IsPair(line) == IndexOf(line, "=") # 0
EndPair == KeyProgress \o <<"=">> \o ValueEnd

\* The number of blocks with a pair in them: a block ends at a blank line, at
\* the pair progress=end and at the end of the lines; open tells whether the
\* block that is being read has a pair.
RECURSIVE CountBlocks(_, _)
CountBlocks(lines, open) ==
    IF lines = <<>> THEN (IF open THEN 1 ELSE 0)
    ELSE LET line == Trim(Head(lines))
         IN  IF Len(line) = 0
             THEN (IF open THEN 1 ELSE 0) + CountBlocks(Tail(lines), FALSE)
             ELSE IF ~IsPair(line) THEN CountBlocks(Tail(lines), open)
             ELSE IF line = EndPair THEN 1 + CountBlocks(Tail(lines), FALSE)
             ELSE CountBlocks(Tail(lines), TRUE)

\* C20: when the child has closed, the callback has been called once for each
\* block of its output that has a pair (a block ends at a blank line, at the
\* pair progress=end and at the close), never with a block without pairs and
\* never after the promise was settled, however the output came in chunks.
C20_OneCallbackPerBlock ==
    /\ proc.state # "none" => proc.late = 0
    /\ proc.state # "none" =>
          \A i \in 1..Len(proc.calls) : DOMAIN proc.calls[i].raw # {}
    /\ proc.state # "none" /\ proc.closed =>
          Len(proc.calls) = CountBlocks(LinesOf(input), FALSE)

\* a block ended by progress=end, a block ended by the close and a line left
\* open, in chunks of which one ended inside a line
C20_Witness ==
    /\ proc.state = "resolved" /\ proc.closed
    /\ input = <<"p", "r", "o", "g", "r", "e", "s", "s", "=", "e", "n", "d", "\n", "f", "p", "s", "=", "2", "\n", "f", "r", "a", "m", "e", "=", "1">>
    /\ proc.cut
    /\ Len(proc.calls) = 2
    /\ proc.buffer # <<>>

\* ------------------------------------------------ parseOutTimeMs on its own
InitElapsed ==
    /\ Quiet
    /\ proc = NoProc
    \* the texts of the two fields of a block, each of them present or not
    /\ input \in
        [out_time_us : {Undef} \cup {Some(t) : t \in
            {<<>>,
             <<"N", "/", "A">>,
             <<"0">>,
             <<"9", "9", "9">>,
             <<"1", "9", "9", "9">>,
             <<"2", "0", "0", "0", "0", "0", "0">>,
             <<"6", "0", "0", "0", "0", "0", "0", "1">>,
             <<"9", "0", "0", "7", "1", "9", "9", "2", "5", "4", "7", "4", "0", "9", "9", "9">>}},
         out_time_ms : {Undef} \cup {Some(t) : t \in
            {<<>>,
             <<"1", "e", "3">>,
             <<"0">>,
             <<"5">>,
             <<"5", "9", "9", "9", "9", "9", "9", "9">>,
             <<"6", "0", "0", "0", "0", "0", "0", "0">>,
             <<"6", "0", "0", "0", "0", "0", "0", "1">>,
             <<"1", "2", "0", "0", "0", "0", "9", "9", "9">>,
             <<"9", "0", "0", "7", "1", "9", "9", "2", "5", "4", "7", "4", "0", "9", "9", "9">>}}]
    /\ result = Undef

ParseElapsed ==
    /\ result = Undef
    /\ result' = Some(parseOutTimeMsText(input))
    /\ UNCHANGED <<rest, proc, input>>

SpecElapsed == InitElapsed /\ [][ParseElapsed]_vars

\* ------------------------------------- claims: the elapsed output time
IsNumber(f) == f # Undef /\ AllDigits(Val(f))
Thousandth(a) == BigDivMod(a, 1000)[1]
\* the elapsed milliseconds of a block, in whole numbers of any size
ElapsedMs(raw) ==
    IF IsNumber(raw.out_time_us) THEN Some(Thousandth(BigOfText(Val(raw.out_time_us))))
    ELSE IF IsNumber(raw.out_time_ms)
    THEN LET v == BigOfText(Val(raw.out_time_ms))
         IN  IF BigLess(BigOf(UsThreshold), v) THEN Some(Thousandth(v)) ELSE Some(v)
    ELSE Undef

\* C21: the elapsed time of a block is floor(us / 1000) for a microseconds
\* field of digits; otherwise, for a milliseconds field of digits with value
\* v, it is v up to 60,000,000 and floor(v / 1000) above; otherwise unknown.
C21_ElapsedMilliseconds ==
    result # Undef => Val(result) = ElapsedMs(input)

\* ------------------------------------- claims: the palette of a run
\* C22: from the end of a palette invocation that exited with code 0 until
\* the encode invocation of the run exits, the file at the run's palette path
\* exists and holds the palette that this run generated, whatever the other
\* conversions of the process do.
C22_PaletteKeptForEncode ==
    \A r \in RunIds :
        /\ run[r].pc \in {"probe", "encode"}
        /\ Succeeded(run[r].exits[2])
        => /\ Exists(fs, Val(run[r].palettePath))
           /\ fs[Val(run[r].palettePath)] = <<"palette", r>>

\* --------------------------- the server: 'error' and then 'close'
\* 'close' of an encode child whose 'error' has rejected the promise before:
\* flushBlock passes the block that is pending in `current` to the callbacks,
\* and the promise stays as it is.
LateClose(r, o, pending) ==
    /\ run[r].pc = "thrown"
    /\ Len(run[r].exits) = 4
    /\ run[r].exits[4].ev = "error"
    /\ o.ev = "close"
    /\ pending # Undef => run[r].blocks < MaxBlocks
    /\ LET flushed == IF pending = Undef THEN <<>> ELSE FlushBlock(r, Val(pending))
       IN  Turn(r, [blocks |-> run[r].blocks + Len(flushed), exits |-> Ended(r, o)],
                flushed, Pending, fs)

NextLate ==
    LET env == [SubsEnv EXCEPT !.encode = {Close(Some(0)), Close(Some(1)), SpawnError},
                               !.pending = {Undef} \cup {Some(b) : b \in ServerBlocks}]
    IN  \/ SubmitOne
        \/ EngineStep(env)
        \/ \E r \in RunIds, o \in env.encode, pending \in env.pending :
              LateClose(r, o, pending)
        \/ Subscribe(1, 1)
        \/ Disconnect(1)

SpecLate == Init /\ [][NextLate]_vars

\* ---------------------------- claims: nothing after the terminal event
ProgressOnly(ms) == SelectSeq(ms, LAMBDA m : m.event = "progress")

C24_DoneHasArtifactErrorHasNone ==
    \A j \in jobs :
        /\ job[j].status = "done" =>
              /\ job[j].outputPath # Undef
              /\ Exists(fs, Val(job[j].outputPath))
              /\ ResultResponse(j).code = 200
        /\ job[j].status = "error" /\ job[j].outputPath # Undef =>
              ~Exists(fs, Val(job[j].outputPath))

=============================================================================
